---- MODULE Spec2Model ----
(***************************************************************************)
(* A model of PoolStatsApp (src/main.py): the per-team counters, the turn   *)
(* state, the five undo stacks and the operations record_action, undo,      *)
(* reset, complete_game and export_stats with its upload worker, and which  *)
(* of the shot buttons are enabled, since record_action runs only from an    *)
(* enabled button.  Fonts, colours, voice output and log timestamps are not  *)
(* state of the model; the narrative log is kept as its lines of recorded    *)
(* entries, and a time is None or "set".                                     *)
(***************************************************************************)
EXTENDS Integers, Sequences, FiniteSets, TLC

\* ----------------------------------------------------------------- bounds
\* The constructor's undo_snapshot_size argument (the capacity of the undo
\* stacks) in Spec, and in SpecUndo, which exercises eviction.
UndoSize == 1
UndoSizeDeep == 2
\* At most this many entries are ever held in the narrative log.
MaxLogEntries == 3
\* At most this many exports are triggered in SpecExport.
MaxExports == 2
\* The counters handed to generate_stats_text in SpecDerive range over 0..MaxCount.
MaxCount == 2

\* -------------------------------------------------------------- vocabulary
None == "None"
Teams == {"team1", "team2"}

\* TeamStats, src/main.py:67-79
Fields == {"visits", "easy_shots", "easy_potted", "difficult_shots",
           "difficult_potted", "safety_shots", "safety_potted", "break_shots",
           "break_potted", "additional_potted", "fouls", "foul_only_shots"}

\* The action kinds wired to the buttons, src/main.py:236-248
Actions == {"difficult_potted", "difficult_shots", "easy_potted", "easy_shots",
            "safety_potted", "safety_shots", "foul_only_shots",
            "additional_potted", "fouls", "break_potted", "break_shots"}

get_starting_team_stats == [f \in Fields |-> 0]

\* any(text == action for text in ("additional_potted", "fouls"))
IsAmendment(action) == action \in {"additional_potted", "fouls"}
\* "break" in action
IsBreak(action) == action \in {"break_potted", "break_shots"}
\* "foul" in action
IsFoul(action) == action \in {"fouls", "foul_only_shots"}
\* action in ['difficult_potted', 'easy_potted', 'safety_potted', 'break_potted']
IsPot(action) == action \in {"difficult_potted", "easy_potted", "safety_potted", "break_potted"}
\* f"{action.split('_')[0]}_shots"
ShotsField(action) ==
  CASE action = "difficult_potted" -> "difficult_shots"
    [] action = "easy_potted" -> "easy_shots"
    [] action = "safety_potted" -> "safety_shots"
    [] action = "break_potted" -> "break_shots"

OtherTeam(team) == IF team = "team2" THEN "team1" ELSE "team2"

\* ------------------------------------------------------------------- state
VARIABLES
  team_stats,                          \* 'team1', 'team2', 'total' -> TeamStats
  active_team, standby_team, break_team,
  shots_left, shots_taken_current_visit,
  start_time, end_time,                \* None or "set"
  buttons,                             \* which shot buttons are in state NORMAL
  action_log,                          \* lines, newest first; a line is its entries
  stats_history, action_log_history, active_team_history,
  shots_left_history, shots_taken_current_visit_history,
  undo_snapshot_size,                  \* capacity of each undo stack
  gsheets,                             \* google_account_file and gsheets_sheet_name given
  uploads,                             \* the rows submitted to the executor, not yet written
  sheet,                               \* the rows written to the worksheet
  clipboard,                           \* the exported string, None before any export
  last,                                \* the last operation and how it ended
  saved,                               \* the state before the last accepted record_action
  undo_run,                            \* bookkeeping of pushes and consecutive undos
  captured,                            \* what each store_snapshots call still undoable saw
  triggered,                           \* the fields as they were at each export_stats call
  stats_in,                            \* the TeamStats handed to generate_stats_text
  derived                              \* the metrics generate_stats_text computed from it

stacks == <<stats_history, action_log_history, active_team_history,
            shots_left_history, shots_taken_current_visit_history>>
turn == <<active_team, standby_team, shots_left, shots_taken_current_visit>>
app == <<team_stats, active_team, standby_team, break_team, shots_left,
         shots_taken_current_visit, start_time, end_time, buttons, action_log,
         stacks>>
config == <<undo_snapshot_size, gsheets>>
export == <<uploads, sheet, clipboard>>
display == <<stats_in, derived>>
vars == <<app, config, export, last, saved, undo_run, captured, triggered, display>>

\* The object's fields as one record, so that a method body reads as a chain.
Self ==
  [team_stats |-> team_stats, active_team |-> active_team,
   standby_team |-> standby_team, break_team |-> break_team,
   shots_left |-> shots_left,
   shots_taken_current_visit |-> shots_taken_current_visit,
   start_time |-> start_time, end_time |-> end_time, buttons |-> buttons,
   action_log |-> action_log,
   stats_history |-> stats_history, action_log_history |-> action_log_history,
   active_team_history |-> active_team_history,
   shots_left_history |-> shots_left_history,
   shots_taken_current_visit_history |-> shots_taken_current_visit_history,
   undo_snapshot_size |-> undo_snapshot_size]

\* undo_snapshot_size is read only; Commit writes the other fields back.
Commit(s) ==
  /\ team_stats' = s.team_stats
  /\ active_team' = s.active_team
  /\ standby_team' = s.standby_team
  /\ break_team' = s.break_team
  /\ shots_left' = s.shots_left
  /\ shots_taken_current_visit' = s.shots_taken_current_visit
  /\ start_time' = s.start_time
  /\ end_time' = s.end_time
  /\ buttons' = s.buttons
  /\ action_log' = s.action_log
  /\ stats_history' = s.stats_history
  /\ action_log_history' = s.action_log_history
  /\ active_team_history' = s.active_team_history
  /\ shots_left_history' = s.shots_left_history
  /\ shots_taken_current_visit_history' = s.shots_taken_current_visit_history

Outcome(op, team, action, result) ==
  [op |-> op, team |-> team, action |-> action, result |-> result]

\* ----------------------------------------------------------------- helpers
\* Mutant of update_stats_display: the total is not recomputed.
update_stats_display_Stale(s) == s

\* update_stats_display: total[k] = team1[k] + team2[k]
update_stats_display(s) ==
  [s EXCEPT !.team_stats["total"] =
     [k \in Fields |-> s.team_stats["team1"][k] + s.team_stats["team2"][k]]]

\* The buttons as set_active_team(None) leaves them: the shot and amendment
\* buttons of both sides disabled, the break buttons enabled.
IdleButtons ==
  [team_buttons |-> [t \in Teams |-> FALSE],
   team_additional_shot_buttons |->
     [t \in Teams |-> [a \in {"additional_potted", "fouls"} |-> FALSE]],
   break_buttons |-> TRUE]

set_active_team(s, team) ==
  [s EXCEPT !.active_team = team,
            !.standby_team = IF team # None
                             THEN (IF team = "team2" THEN "team1" ELSE "team2")
                             ELSE None,
            !.shots_left = 1,
            !.shots_taken_current_visit = 0,
            !.buttons = IF team # None
                        THEN [@ EXCEPT !.team_buttons =
                                [t \in Teams |-> t = team]]
                        ELSE IdleButtons]

\* Mutant of DropOldest: the oldest snapshot goes one push too late.
DropOldest_OffByOne(snapshots, size) ==
  IF Len(snapshots) > size THEN Tail(snapshots) ELSE snapshots

\* for snapshots in (...): if len(snapshots) >= size: snapshots.pop(0)
DropOldest(snapshots, size) ==
  IF Len(snapshots) >= size THEN Tail(snapshots) ELSE snapshots

\* Mutant of store_snapshots: only the first stack is checked for eviction.
store_snapshots_EvictStatsOnly(s) ==
  [s EXCEPT
     !.stats_history = Append(DropOldest(@, s.undo_snapshot_size), s.team_stats),
     !.action_log_history = Append(@, s.action_log),
     !.active_team_history = Append(@, s.active_team),
     !.shots_left_history = Append(@, s.shots_left),
     !.shots_taken_current_visit_history = Append(@, s.shots_taken_current_visit)]

store_snapshots(s) ==
  [s EXCEPT
     !.stats_history = Append(DropOldest(@, s.undo_snapshot_size), s.team_stats),
     !.action_log_history = Append(DropOldest(@, s.undo_snapshot_size), s.action_log),
     !.active_team_history = Append(DropOldest(@, s.undo_snapshot_size), s.active_team),
     !.shots_left_history = Append(DropOldest(@, s.undo_snapshot_size), s.shots_left),
     !.shots_taken_current_visit_history =
        Append(DropOldest(@, s.undo_snapshot_size), s.shots_taken_current_visit)]

\* add_action: a new line at the top, or an entry appended to the top line
add_action(s, entry, append) ==
  IF append
  THEN IF s.action_log = <<>>
       THEN [s EXCEPT !.action_log = << <<entry>> >>]
       ELSE [s EXCEPT !.action_log[1] = Append(@, entry)]
  ELSE [s EXCEPT !.action_log = << <<entry>> >> \o @]

RECURSIVE LogEntries(_)
LogEntries(log) == IF log = <<>> THEN 0 ELSE Len(Head(log)) + LogEntries(Tail(log))

\* The fields the claims compare across operations.
View(s) ==
  [team_stats |-> s.team_stats, active_team |-> s.active_team,
   standby_team |-> s.standby_team, break_team |-> s.break_team,
   shots_left |-> s.shots_left,
   shots_taken_current_visit |-> s.shots_taken_current_visit,
   start_time |-> s.start_time]

NoSaved == [phase |-> "none"]
NoRun == [pushed |-> 0, before |-> <<>>, undone |-> 0]

\* __init__ with undo_snapshot_size = size
InitWith(size) ==
  /\ uploads = <<>>
  /\ triggered = <<>>
  /\ sheet = <<>>
  /\ clipboard = None
  /\ end_time = None
  /\ buttons = IdleButtons
  /\ captured = <<>>
  /\ team_stats = [t \in Teams \cup {"total"} |-> get_starting_team_stats]
  /\ active_team = None
  /\ standby_team = None
  /\ break_team = None
  /\ shots_left = 1
  /\ shots_taken_current_visit = 0
  /\ start_time = None
  /\ action_log = <<>>
  /\ stats_history = <<>>
  /\ action_log_history = <<>>
  /\ active_team_history = <<>>
  /\ shots_left_history = <<>>
  /\ shots_taken_current_visit_history = <<>>
  /\ undo_snapshot_size = size
  /\ last = Outcome("init", None, None, "ok")
  /\ saved = NoSaved
  /\ undo_run = NoRun

NotDerived == [computed |-> FALSE]

\* Nothing has been handed to generate_stats_text yet.
NoDisplay == stats_in = get_starting_team_stats /\ derived = NotDerived

\* google_account_file and gsheets_sheet_name default to None
Init == InitWith(UndoSize) /\ gsheets = FALSE /\ NoDisplay

\* -------------------------------------------------------------- record_action
\* Mutant of WrongTeam: break attempts are let through to the later checks.
WrongTeam_ExceptBreak(s, team, action) ==
  s.active_team # None /\ ~IsAmendment(action) /\ ~IsBreak(action)
    /\ team # s.active_team

\* if self.active_team and not amendment and not team == self.active_team
WrongTeam(s, team, action) ==
  s.active_team # None /\ ~IsAmendment(action) /\ team # s.active_team

\* Mutant of DuplicateBreak: only a potted break counts as a break taken.
DuplicateBreak_PottedOnly(s, team, action) ==
  IsBreak(action) /\ s.team_stats[team]["break_potted"] > 0

\* Mutant of DuplicateBreak: the comparison is off by one.
DuplicateBreak_OffByOne(s, team, action) ==
  IsBreak(action) /\ s.team_stats[team]["break_shots"] > 1

\* if "break" in action and self.team_stats[team]['break_shots'] > 0
DuplicateBreak(s, team, action) ==
  IsBreak(action) /\ s.team_stats[team]["break_shots"] > 0

\* the first break attempt: start time, break team and the activation
\* Mutant of first_break: the break side is whichever side gets the table.
first_break_ActivatedSide(s, team, action) ==
  IF IsBreak(action) /\ s.start_time = None
  THEN LET to == IF action = "break_potted" THEN team ELSE OtherTeam(team)
       IN set_active_team([s EXCEPT !.start_time = "set",
                                    !.buttons.break_buttons = FALSE,
                                    !.break_team = to], to)
  ELSE s

first_break(s, team, action) ==
  IF IsBreak(action) /\ s.start_time = None
  THEN set_active_team([s EXCEPT !.start_time = "set",
                                 !.buttons.break_buttons = FALSE,
                                 !.break_team = team],
                       IF action = "break_potted" THEN team ELSE OtherTeam(team))
  ELSE s

\* if self.shots_taken_current_visit == 0 and not amendment
StartsVisit(s, action) ==
  s.shots_taken_current_visit = 0 /\ ~IsAmendment(action)

\* Mutant of VisitCheck: the first check (a side already ahead) is missing.
VisitCheck_NoBalance(s, team, action) ==
  IF ~(s.shots_taken_current_visit = 0 /\ ~IsAmendment(action)) THEN "ok"
  ELSE IF team # s.break_team
       THEN IF s.break_team = None
            THEN "KeyError"
            ELSE IF s.team_stats[s.break_team]["visits"] < s.team_stats[team]["visits"]
                 THEN "IncorrectVisitsError"
                 ELSE "ok"
  ELSE "ok"

\* The two visit checks; "KeyError" is self.team_stats[None] of the second.
VisitCheck(s, team, action) ==
  IF ~StartsVisit(s, action) THEN "ok"
  ELSE IF s.team_stats[team]["visits"] - s.team_stats[OtherTeam(team)]["visits"] > 0
       THEN "IncorrectVisitsError"
  ELSE IF team # s.break_team
       THEN IF s.break_team = None
            THEN "KeyError"
            ELSE IF s.team_stats[s.break_team]["visits"] < s.team_stats[team]["visits"]
                 THEN "IncorrectVisitsError"
                 ELSE "ok"
  ELSE "ok"

Increment(s, team, field) ==
  [s EXCEPT !.team_stats[team][field] = @ + 1]

\* Mutant of ShotCounters: a miss does not use up a shot.
ShotCounters_NoDecrement(s, team, action) ==
  IF IsPot(action) THEN [s EXCEPT !.team_stats[team][ShotsField(action)] = @ + 1]
  ELSE s

\* Mutant of ShotCounters: a pot is not counted as a shot taken.
ShotCounters_PotOnly(s, team, action) ==
  IF IsPot(action) THEN s
  ELSE IF action = "additional_potted" THEN s
  ELSE [s EXCEPT !.shots_left = @ - 1]

\* if action in [..potted..] / elif additional_potted / else: shots_left -= 1
ShotCounters(s, team, action) ==
  IF IsPot(action) THEN Increment(s, team, ShotsField(action))
  ELSE IF action = "additional_potted" THEN s
  ELSE [s EXCEPT !.shots_left = @ - 1]

\* Mutant of FoulOnly: a foul-only shot is not counted as a foul.
FoulOnly_NotAFoul(s, team, action) == s

\* if action == 'foul_only_shots': fouls += 1
FoulOnly(s, team, action) ==
  IF action = "foul_only_shots" THEN Increment(s, team, "fouls") ELSE s

\* Mutant of Turnover: additional_potted counts as a shot of the visit.
Turnover_CountsAdditional(s, team, action) ==
  IF IsFoul(action)
  THEN [set_active_team(s, OtherTeam(team)) EXCEPT !.shots_left = @ + 1]
  ELSE IF s.shots_left = 0 THEN set_active_team(s, OtherTeam(team))
  ELSE [s EXCEPT !.shots_taken_current_visit = @ + 1]

\* Mutant of Turnover: the side coming in after a foul gets no second shot.
Turnover_NoPenalty(s, team, action) ==
  IF IsFoul(action) \/ s.shots_left = 0 THEN set_active_team(s, OtherTeam(team))
  ELSE IF action # "additional_potted"
       THEN [s EXCEPT !.shots_taken_current_visit = @ + 1]
  ELSE s

\* if "foul" in action / elif shots_left == 0 / elif not additional_potted
Turnover(s, team, action) ==
  IF IsFoul(action)
  THEN [set_active_team(s, OtherTeam(team)) EXCEPT !.shots_left = @ + 1]
  ELSE IF s.shots_left = 0 THEN set_active_team(s, OtherTeam(team))
  ELSE IF action # "additional_potted"
       THEN [s EXCEPT !.shots_taken_current_visit = @ + 1]
  ELSE s

\* Mutant of SnapshotThenVisit: the visit is credited before the snapshot.
VisitThenSnapshot(s, team, increment_visits) ==
  store_snapshots(IF increment_visits
                  THEN [s EXCEPT !.team_stats[team]["visits"] = @ + 1]
                  ELSE s)

\* The snapshot, then the visit credit ("needs to be done after snapshots")
SnapshotThenVisit(s, team, increment_visits) ==
  LET snap == store_snapshots(s)
  IN IF increment_visits THEN Increment(snap, team, "visits") ELSE snap

\* With the visit credit: the other side's amendment buttons are disabled
\* and the side's own fouls button is enabled.
visit_buttons(s, team, increment_visits) ==
  IF increment_visits
  THEN [s EXCEPT
          !.buttons.team_additional_shot_buttons[OtherTeam(team)] =
             [a \in {"additional_potted", "fouls"} |-> FALSE],
          !.buttons.team_additional_shot_buttons[team]["fouls"] = TRUE]
  ELSE s

\* additional_pot_btn: enabled by a pot or an additional pot, disabled otherwise
additional_pot_btn(s, team, action) ==
  [s EXCEPT !.buttons.team_additional_shot_buttons[team]["additional_potted"] =
              IsPot(action) \/ action = "additional_potted"]

\* The accepted path of record_action, from store_snapshots to the display.
apply_action(s, team, action, increment_visits) ==
  LET a == visit_buttons(SnapshotThenVisit(s, team, increment_visits),
                         team, increment_visits)
      b == additional_pot_btn(IF IsAmendment(action)
                              THEN add_action(a, <<action>>, TRUE)
                              ELSE add_action(a, <<team, action>>, FALSE),
                              team, action)
      c == ShotCounters(b, team, action)
      d == FoulOnly(c, team, action)
      e == Turnover(d, team, action)
      f == Increment(e, team, action)
  IN update_stats_display(f)

record_action(team, action) ==
  LET s == Self IN
  IF WrongTeam(s, team, action)
  THEN /\ UNCHANGED app
       /\ last' = Outcome("record_action", team, action, "WrongTeamShotError")
  ELSE IF DuplicateBreak(s, team, action)
  THEN /\ UNCHANGED app
       /\ last' = Outcome("record_action", team, action, "DuplicateBreak")
  ELSE LET s1 == first_break(s, team, action)
           chk == VisitCheck(s1, team, action)
       IN IF chk # "ok"
          THEN /\ Commit(s1)
               /\ last' = Outcome("record_action", team, action, chk)
          ELSE /\ LogEntries(action_log) < MaxLogEntries
               /\ Commit(apply_action(s1, team, action, StartsVisit(s1, action)))
               /\ last' = Outcome("record_action", team, action, "ok")

\* ------------------------------------------------------------------- undo
Last(seq) == seq[Len(seq)]
Front(seq) == SubSeq(seq, 1, Len(seq) - 1)

undo_pop(s) ==
  LET a == update_stats_display(
             [s EXCEPT !.team_stats = Last(s.stats_history),
                       !.stats_history = Front(s.stats_history)])
      b == IF a.action_log_history # <<>>
           THEN [a EXCEPT !.action_log = Last(a.action_log_history),
                          !.action_log_history = Front(a.action_log_history)]
           ELSE a
      c == IF b.active_team_history # <<>>
           THEN [set_active_team(b, Last(b.active_team_history))
                   EXCEPT !.active_team_history = Front(b.active_team_history)]
           ELSE b
      d == IF c.shots_left_history # <<>>
           THEN [c EXCEPT !.shots_left = Last(c.shots_left_history),
                          !.shots_left_history = Front(c.shots_left_history)]
           ELSE c
  IN IF d.shots_taken_current_visit_history # <<>>
     THEN [d EXCEPT !.shots_taken_current_visit =
                       Last(d.shots_taken_current_visit_history),
                    !.shots_taken_current_visit_history =
                       Front(d.shots_taken_current_visit_history)]
     ELSE d

\* Mutant of undo: the log is emptied before the history is looked at.
undo_ClearsLog ==
  IF stats_history # <<>>
  THEN /\ Commit(undo_pop(Self))
       /\ last' = Outcome("undo", None, None, "ok")
  ELSE /\ Commit([Self EXCEPT !.action_log = <<>>])
       /\ last' = Outcome("undo", None, None, "EmptyHistory")

\* the else branch is messagebox.showwarning("Undo", "Cannot undo anymore!")
undo ==
  IF stats_history # <<>>
  THEN /\ Commit(undo_pop(Self))
       /\ last' = Outcome("undo", None, None, "ok")
  ELSE /\ UNCHANGED app
       /\ last' = Outcome("undo", None, None, "EmptyHistory")

\* ------------------------------------------------------------------ reset
\* Mutant of reset_team_stats: only the first side is zeroed.
reset_team_stats_OneSide(s) ==
  [s EXCEPT !.team_stats["team1"] = get_starting_team_stats]

reset_team_stats(s) ==
  [s EXCEPT !.team_stats["team1"] = get_starting_team_stats,
            !.team_stats["team2"] = get_starting_team_stats]

\* Mutant of reset_confirmed: the history is cleared instead of extended.
reset_confirmed_ClearsHistory(s) ==
  LET a == reset_team_stats([s EXCEPT !.stats_history = <<>>,
                                      !.action_log_history = <<>>,
                                      !.active_team_history = <<>>,
                                      !.shots_left_history = <<>>,
                                      !.shots_taken_current_visit_history = <<>>])
      b == update_stats_display([a EXCEPT !.start_time = None, !.end_time = None])
  IN set_active_team([b EXCEPT !.action_log = <<>>], None)

\* reset with the confirmation answered yes
reset_confirmed(s) ==
  LET a == reset_team_stats(store_snapshots(s))
      b == update_stats_display([a EXCEPT !.start_time = None, !.end_time = None])
  IN set_active_team([b EXCEPT !.action_log = <<>>], None)

reset(result) ==
  IF result
  THEN /\ Commit(reset_confirmed(Self))
       /\ last' = Outcome("reset", None, None, "ok")
  ELSE /\ UNCHANGED app
       /\ last' = Outcome("reset", None, None, "declined")

\* The button that calls record_action(team, action) is in state NORMAL.
button_enabled(team, action) ==
  IF IsBreak(action) THEN buttons.break_buttons
  ELSE IF IsAmendment(action) THEN buttons.team_additional_shot_buttons[team][action]
  ELSE buttons.team_buttons[team]

\* ------------------------------------------------------------------- spec
\* saved: the view before an accepted record_action, kept over one undo
TrackRecord ==
  saved' = IF last'.result = "ok"
           THEN [phase |-> "recorded", view |-> View(Self),
                 team |-> last'.team, action |-> last'.action]
           ELSE NoSaved

TrackUndo ==
  saved' = IF last'.result = "ok" /\ saved.phase = "recorded"
           THEN [saved EXCEPT !.phase = "undone"]
           ELSE IF saved.phase = "reset"
           THEN [saved EXCEPT !.phase = "reset_undone"]
           ELSE NoSaved

RecordAction ==
  \E team \in Teams, action \in Actions :
    button_enabled(team, action) /\ record_action(team, action) /\ TrackRecord
      /\ UNCHANGED <<config, export, undo_run, captured, triggered, display>>

Undo == undo /\ TrackUndo /\ UNCHANGED <<config, export, undo_run, captured, triggered, display>>

Reset ==
  \E result \in BOOLEAN :
    reset(result) /\ saved' = NoSaved /\ UNCHANGED <<config, export, undo_run, captured, triggered, display>>

Next == RecordAction \/ Undo \/ Reset

Spec == Init /\ [][Next]_vars

\* SpecUndo: capacity UndoSizeDeep, a run of pushes followed by a run of undos.
\* undo_run.pushed counts the accepted mutations since the last undo (up to
\* capacity + 1), undo_run.before holds the counters before each of the last
\* `capacity` of them, undo_run.undone counts the undos that directly follow
\* more than `capacity` such mutations, and undo_run.outcome is how the last
\* of these undos ended.
UndoActions == {"break_potted", "easy_potted", "easy_shots", "fouls"}

KeepLast(seq, n) == IF Len(seq) > n THEN SubSeq(seq, Len(seq) - n + 1, Len(seq)) ELSE seq

TrackPush ==
  undo_run' =
    IF last'.result = "ok"
    THEN [pushed |-> IF undo_run.pushed > undo_snapshot_size
                     THEN undo_run.pushed ELSE undo_run.pushed + 1,
          before |-> KeepLast(Append(undo_run.before, team_stats), undo_snapshot_size),
          undone |-> 0]
    ELSE undo_run

TrackPop ==
  undo_run' =
    IF (undo_run.pushed > undo_snapshot_size \/ undo_run.undone >= 1)
       /\ undo_run.undone <= undo_snapshot_size
    THEN [pushed |-> 0, before |-> undo_run.before,
          undone |-> undo_run.undone + 1, outcome |-> last'.result]
    ELSE NoRun

\* captured: one record per store_snapshots call, of the five values the call
\* read, oldest first; the oldest leaves at capacity, the newest on undo.
Seen(s) ==
  [team_stats |-> s.team_stats, action_log |-> s.action_log,
   active_team |-> s.active_team, shots_left |-> s.shots_left,
   shots_taken_current_visit |-> s.shots_taken_current_visit]

TrackSnapshot(s) ==
  captured' = IF last'.result = "ok"
              THEN KeepLast(Append(captured, Seen(s)), undo_snapshot_size)
              ELSE captured

TrackRestore ==
  captured' = IF last'.result = "ok" THEN Front(captured) ELSE captured

\* saved after a confirmed reset: the view and the five stacks before it
TrackReset ==
  saved' = IF last'.result = "ok"
           THEN [phase |-> "reset", view |-> View(Self), stacks |-> stacks]
           ELSE NoSaved

RecordActionU ==
  \E team \in Teams, action \in UndoActions :
    button_enabled(team, action) /\ record_action(team, action) /\ TrackPush
      /\ TrackSnapshot(first_break(Self, team, action)) /\ TrackRecord
      /\ UNCHANGED <<config, export, triggered, display>>

UndoU ==
  undo /\ TrackPop /\ TrackRestore /\ TrackUndo
    /\ UNCHANGED <<config, export, triggered, display>>

ResetU ==
  \E result \in BOOLEAN :
    reset(result) /\ TrackPush /\ TrackSnapshot(Self) /\ TrackReset
      /\ UNCHANGED <<config, export, triggered, display>>

NextUndo == RecordActionU \/ UndoU \/ ResetU

InitUndo == InitWith(UndoSizeDeep) /\ gsheets = FALSE /\ NoDisplay

SpecUndo == InitUndo /\ [][NextUndo]_vars

\* ---------------------------------------------------- complete_game, export
\* self.end_time = datetime.now(); add_action("Game complete"); update_stats_display()
complete_game ==
  LET a == [Self EXCEPT !.end_time = "set"]
      b == add_action(a, "Game complete", FALSE)
  IN /\ LogEntries(action_log) < MaxLogEntries
     /\ Commit(update_stats_display(b))
     /\ last' = Outcome("complete_game", None, None, "ok")

stats_order ==
  <<"visits", "easy_shots", "easy_potted", "difficult_shots", "difficult_potted",
    "safety_shots", "safety_potted", "break_shots", "break_potted",
    "additional_potted", "fouls", "foul_only_shots">>

\* t.strftime("%Y-%m-%d %H:%M:%S") if t else 'N/A'
time_str(t) == IF t # None THEN "yyyy-mm-dd HH:MM:SS" ELSE "N/A"

\* data = [start_time_str, end_time_str] + team1_stats + team2_stats
export_data(s) ==
  <<time_str(s.start_time), time_str(s.end_time)>>
    \o [i \in 1..Len(stats_order) |-> s.team_stats["team1"][stats_order[i]]]
    \o [i \in 1..Len(stats_order) |-> s.team_stats["team2"][stats_order[i]]]

\* '\t'.join(list(map(str, data))), kept as its cells: the two times are
\* strings already, the counters are turned into decimal strings
export_string(data) ==
  [i \in 1..Len(data) |-> IF i > 2 THEN ToString(data[i]) ELSE data[i]]

\* export_stats: the row is built from the fields now; with Google Sheets
\* configured it is submitted to the executor, otherwise it goes to the
\* clipboard.  id numbers the submitted call.
export_stats ==
  LET s == [Self EXCEPT !.end_time = IF @ # None THEN @ ELSE "set"]
      data == export_data(s)
  IN /\ Len(triggered) < MaxExports
     /\ Commit(s)
     /\ IF gsheets
        THEN /\ uploads' = Append(uploads, [id |-> Len(triggered) + 1, data |-> data,
                                            pc |-> "submitted", row |-> 0])
             /\ UNCHANGED <<sheet, clipboard>>
        ELSE /\ clipboard' = export_string(data)
             /\ UNCHANGED <<uploads, sheet>>
     /\ last' = Outcome("export_stats", None, None, "ok")

\* A pool thread runs submitted call i up to worksheet.find("", in_column=1):
\* the first empty row of column A, or none (row 0) when the grid is full.
upload_to_gsheets_find(i) ==
  /\ uploads[i].pc = "submitted"
  /\ \E row \in {0, Len(sheet) + 1} :
       uploads' = [uploads EXCEPT ![i].pc = "found", ![i].row = row]
  /\ UNCHANGED <<app, sheet, clipboard>>
  /\ last' = Outcome("upload_to_gsheets_find", None, None, "ok")

Remove(seq, i) == SubSeq(seq, 1, i - 1) \o SubSeq(seq, i + 1, Len(seq))

\* Mutant of worksheet_write: the row is read from the object when written.
worksheet_write_LiveRead(task) ==
  IF task.row \in 1..Len(sheet)
  THEN [sheet EXCEPT ![task.row] = export_data(Self)]
  ELSE Append(sheet, export_data(Self))

\* worksheet.update(f'A{row}:Z{row}', [data]) or worksheet.append_row(data)
worksheet_write(task) ==
  IF task.row \in 1..Len(sheet)
  THEN [sheet EXCEPT ![task.row] = task.data]
  ELSE Append(sheet, task.data)

\* The pool thread finishes call i: it writes the row it was given.
upload_to_gsheets(i) ==
  /\ uploads[i].pc = "found"
  /\ sheet' = worksheet_write(uploads[i])
  /\ uploads' = Remove(uploads, i)
  /\ UNCHANGED <<app, clipboard>>
  /\ last' = Outcome("upload_to_gsheets", None, None, "ok")

\* ------------------------------------------------------------- SpecExport
\* SpecExport: break attempts, undo, reset and complete_game around up to
\* MaxExports exports, with Google Sheets configured or not.
ExportActions == {"break_potted"}

Untracked == UNCHANGED <<config, saved, undo_run, captured, display>>

RecordActionE ==
  \E team \in Teams, action \in ExportActions :
    button_enabled(team, action) /\ record_action(team, action) /\ Untracked /\ UNCHANGED <<export, triggered>>

UndoE == undo /\ Untracked /\ UNCHANGED <<export, triggered>>

ResetE == reset(TRUE) /\ Untracked /\ UNCHANGED <<export, triggered>>

CompleteGame == complete_game /\ Untracked /\ UNCHANGED <<export, triggered>>

ExportStats ==
  /\ export_stats
  /\ triggered' = Append(triggered, [team_stats |-> team_stats,
                                     start_time |-> start_time,
                                     end_time |-> end_time'])
  /\ Untracked

UploadFind ==
  \E i \in DOMAIN uploads : upload_to_gsheets_find(i) /\ Untracked /\ UNCHANGED triggered

UploadWrite ==
  \E i \in DOMAIN uploads : upload_to_gsheets(i) /\ Untracked /\ UNCHANGED triggered

NextExport ==
  RecordActionE \/ UndoE \/ ResetE \/ CompleteGame \/ ExportStats
    \/ UploadFind \/ UploadWrite

InitExport == InitWith(UndoSize) /\ gsheets \in BOOLEAN /\ NoDisplay

SpecExport == InitExport /\ [][NextExport]_vars

\* ------------------------------------------------------ generate_stats_text
\* A float result as a fraction num/den, or the ZeroDivisionError raised
\* instead of it.
Fraction(num, den) == [raised |-> FALSE, num |-> num, den |-> den]
ZeroDivisionError == [raised |-> TRUE, num |-> 0, den |-> 1]

\* Python's numerator / denominator
true_div(numerator, denominator) ==
  IF denominator = 0 THEN ZeroDivisionError ELSE Fraction(numerator, denominator)

\* Mutant of calculate_percentage: the division is not guarded.
calculate_percentage_Unguarded(numerator, denominator) ==
  LET q == true_div(numerator, denominator)
  IN IF q.raised THEN q ELSE Fraction(q.num * 100, q.den)

\* (numerator / denominator) * 100 if denominator else 0.0
calculate_percentage(numerator, denominator) ==
  IF denominator # 0
  THEN LET q == true_div(numerator, denominator)
       IN IF q.raised THEN q ELSE Fraction(q.num * 100, q.den)
  ELSE Fraction(0, 1)

\* The metrics generate_stats_text computes before it formats them.
generate_stats_text(s) ==
  LET total_pot_attempts == s["easy_shots"] + s["difficult_shots"]
      total_shots == s["easy_shots"] + s["difficult_shots"] + s["safety_shots"]
                       + s["break_shots"] + s["foul_only_shots"]
      total_potted == s["easy_potted"] + s["difficult_potted"]
      total_potted_with_break == total_potted + s["break_potted"]
      total_pots_with_additional ==
        total_potted_with_break + s["safety_potted"] + s["additional_potted"]
  IN [computed |-> TRUE,
      total_shots |-> total_shots,
      shot_percent |-> calculate_percentage(total_pots_with_additional, total_shots),
      pot_percent |-> calculate_percentage(total_potted, total_pot_attempts),
      pot_per_visit |-> true_div(total_pots_with_additional,
                                 IF s["visits"] # 0 THEN s["visits"] ELSE 1),
      easy_shot_percent |-> calculate_percentage(s["easy_potted"], s["easy_shots"]),
      difficult_shot_percent |->
        calculate_percentage(s["difficult_potted"], s["difficult_shots"])]

\* -------------------------------------------------------------- SpecDerive
\* SpecDerive: generate_stats_text applied to any TeamStats with counters
\* in 0..MaxCount.
GenerateStatsText ==
  /\ ~derived.computed
  /\ derived' = generate_stats_text(stats_in)
  /\ UNCHANGED <<app, config, export, last, saved, undo_run, captured, triggered, stats_in>>

NextDerive == GenerateStatsText

InitDerive ==
  /\ InitWith(UndoSize) /\ gsheets = FALSE
  /\ stats_in \in [Fields -> 0..MaxCount] /\ derived = NotDerived

SpecDerive == InitDerive /\ [][NextDerive]_vars

\* ------------------------------------------------------------------ claims
Visits(team) == team_stats[team]["visits"]
Accepted == last.op = "record_action" /\ last.result = "ok"

\* C1: in every reachable state the visits counters of the two sides differ
\* by at most 1.
C1_VisitsBalanced ==
  /\ Visits("team1") - Visits("team2") <= 1
  /\ Visits("team2") - Visits("team1") <= 1

\* C1 witness: a side one visit ahead was refused another visit.
C1_Witness ==
  /\ last.op = "record_action" /\ last.result = "IncorrectVisitsError"
  /\ Visits(last.team) = Visits(OtherTeam(last.team)) + 1

\* C2 as stated: whenever a break side is set, the non-break side's visits do
\* not exceed the break side's visits.
C2_BreakSideLeads ==
  break_team # None => Visits(OtherTeam(break_team)) <= Visits(break_team)

\* C3: an accepted record_action immediately followed by undo leaves every
\* counter of team1, team2 and the total as it was before the record_action.
C3_UndoRestoresCounters ==
  saved.phase = "undone" => team_stats = saved.view.team_stats

\* C3 witness: the undone action was a first break that had credited a visit.
C3_Witness ==
  /\ saved.phase = "undone"
  /\ saved.action = "break_potted"
  /\ saved.view.active_team = None
  /\ stats_history = <<>>

\* C4 as stated: an accepted record_action immediately followed by undo leaves
\* active_team, standby_team, shots_left and shots_taken_current_visit as they
\* were before the record_action.
C4_UndoRestoresTurn ==
  saved.phase = "undone" =>
     /\ active_team = saved.view.active_team
     /\ standby_team = saved.view.standby_team
     /\ shots_left = saved.view.shots_left
     /\ shots_taken_current_visit = saved.view.shots_taken_current_visit

\* C5 as stated: a record_action rejected with IncorrectVisitsError has changed
\* no counter, no turn-state field, not break_team and no history stack.
C5_RejectedVisitsUnchanged ==
  [][(last'.op = "record_action" /\ last'.result = "IncorrectVisitsError")
       => UNCHANGED <<team_stats, turn, break_team, stacks>>]_vars

\* C6: with a side active, a non-amendment record_action for the other side
\* fails with WrongTeamShotError and changes nothing, also when the action is
\* a duplicate break or would unbalance the visits.
C6_WrongSideRejected ==
  [][(/\ last'.op = "record_action"
      /\ active_team # None
      /\ last'.team # active_team
      /\ last'.action \notin {"additional_potted", "fouls"})
       => (last'.result = "WrongTeamShotError" /\ UNCHANGED app)]_vars

\* C6 witness: the wrong side's rejected action was a break it had already
\* taken, while it was a visit ahead.
C6_Witness ==
  /\ last.op = "record_action" /\ last.result = "WrongTeamShotError"
  /\ last.action \in {"break_potted", "break_shots"}
  /\ team_stats[last.team]["break_shots"] >= 1
  /\ Visits(last.team) > Visits(OtherTeam(last.team))

\* C7: a break kind for a side whose break_shots is already >= 1, the
\* wrong-side check passing, is a no-op: no exception and nothing changes.
C7_DuplicateBreakNoOp ==
  [][(/\ last'.op = "record_action"
      /\ last'.action \in {"break_potted", "break_shots"}
      /\ team_stats[last'.team]["break_shots"] >= 1
      /\ (active_team = None \/ last'.team = active_team))
       => (last'.result = "DuplicateBreak" /\ UNCHANGED app)]_vars

\* C7 witness: the active side's second break attempt was turned down.
C7_Witness ==
  /\ last.op = "record_action" /\ last.result = "DuplicateBreak"
  /\ last.team = active_team
  /\ team_stats[last.team]["break_potted"] = 1

\* C8: in every reachable state break_shots <= 1 for each side.
C8_OneBreakPerSide ==
  \A team \in Teams : team_stats[team]["break_shots"] <= 1

\* C8 witness: both sides have their break attempt recorded.
C8_Witness ==
  \A team \in Teams : team_stats[team]["break_shots"] = 1

\* C9 as stated: an amendment action leaves active_team, standby_team,
\* shots_left and shots_taken_current_visit as they were.
C9_AmendmentKeepsTurn ==
  [][(/\ last'.op = "record_action" /\ last'.result = "ok"
      /\ last'.action \in {"additional_potted", "fouls"})
       => UNCHANGED turn]_vars

\* C9 amended: additional_potted leaves the four turn-state fields as they
\* were; fouls recorded for a side makes that side's opponent the active side
\* with shots_left = 2 and shots_taken_current_visit = 0.
C9_AmendmentTurn ==
  [][(last'.op = "record_action" /\ last'.result = "ok")
       => /\ last'.action = "additional_potted" => UNCHANGED turn
          /\ last'.action = "fouls" =>
               /\ active_team' = OtherTeam(last'.team)
               /\ standby_team' = last'.team
               /\ shots_left' = 2
               /\ shots_taken_current_visit' = 0]_vars

\* C9 witness: fouls recorded for the side whose miss had already passed the
\* turn: the opponent stays active and now has two shots.
C9_Witness ==
  /\ saved.phase = "recorded" /\ saved.action = "fouls"
  /\ saved.view.active_team = OtherTeam(saved.team)
  /\ saved.view.shots_left = 1
  /\ active_team = saved.view.active_team
  /\ standby_team = saved.team
  /\ shots_left = 2
  /\ shots_taken_current_visit = 0

\* C10: the history depth never exceeds the capacity N; after more than N
\* accepted mutations with no undo in between, the k-th consecutive undo
\* (k = 1..N) succeeds and restores the counters as they were before the k-th
\* most recent mutation, and the (N+1)-th undo reports empty history.
C10_BoundedHistory ==
  /\ Len(stats_history) <= undo_snapshot_size
  /\ \A k \in 1..undo_snapshot_size :
       undo_run.undone = k =>
         /\ undo_run.outcome = "ok"
         /\ team_stats = undo_run.before[undo_snapshot_size - k + 1]
  /\ undo_run.undone = undo_snapshot_size + 1 => undo_run.outcome = "EmptyHistory"

\* C10 witness: N undos went back through N different snapshots, the last of
\* them taken after an earlier one had been evicted, and the next undo failed.
C10_Witness ==
  /\ undo_snapshot_size >= 2
  /\ undo_run.undone = undo_snapshot_size + 1
  /\ undo_run.outcome = "EmptyHistory"
  /\ undo_run.before[1] # undo_run.before[2]
  /\ team_stats = undo_run.before[1]
  /\ team_stats["total"]["visits"] >= 1

\* C11: in every reachable state the five history stacks have the same length
\* and the entries at one index are the five values one store_snapshots call
\* read; pushes, evictions and pops act on all five together.
C11_LockStep ==
  LET n == Len(captured) IN
  /\ stats_history = [i \in 1..n |-> captured[i].team_stats]
  /\ action_log_history = [i \in 1..n |-> captured[i].action_log]
  /\ active_team_history = [i \in 1..n |-> captured[i].active_team]
  /\ shots_left_history = [i \in 1..n |-> captured[i].shots_left]
  /\ shots_taken_current_visit_history =
       [i \in 1..n |-> captured[i].shots_taken_current_visit]

\* C11 witness: after an eviction and an undo, one entry is left in each
\* stack, taken during a two-shot visit.
C11_Witness ==
  /\ undo_run.undone = 1
  /\ Len(stats_history) = 1 /\ Len(shots_taken_current_visit_history) = 1
  /\ shots_left_history[1] = 2
  /\ active_team_history[1] # None
  /\ action_log_history[1] # <<>>

\* C12: undo with an empty history changes nothing (counters, turn state,
\* narrative log) and ends in the warning, not in an exception.
C12_EmptyUndoNoOp ==
  [][(last'.op = "undo" /\ stats_history = <<>>)
       => (last'.result = "EmptyHistory" /\ UNCHANGED app)]_vars

\* C12 witness: the warning came up in the middle of a visit, with a line in
\* the log.
C12_Witness ==
  /\ last.op = "undo" /\ last.result = "EmptyHistory"
  /\ action_log # <<>>
  /\ active_team # None
  /\ shots_taken_current_visit = 1

SumsUp(stats) ==
  \A k \in Fields : stats["total"][k] = stats["team1"][k] + stats["team2"][k]

\* C13: after every operation, each field of the total is the sum of the two
\* sides' fields, in team_stats and in every snapshot of stats_history.
C13_TotalIsSum ==
  /\ SumsUp(team_stats)
  /\ \A i \in 1..Len(stats_history) : SumsUp(stats_history[i])

\* C13 witness: a rejected action, with both sides' visits in the total and a
\* snapshot whose total is not zero.
C13_Witness ==
  /\ last.op = "record_action" /\ last.result = "WrongTeamShotError"
  /\ team_stats["team1"]["visits"] = 1 /\ team_stats["team2"]["visits"] = 1
  /\ stats_history # <<>>
  /\ stats_history[1]["total"]["visits"] = 1

\* The step is an accepted record_action of one of `kinds` by the active side.
ActiveSidePerforms(kinds) ==
  /\ last'.op = "record_action" /\ last'.result = "ok"
  /\ last'.action \in kinds
  /\ active_team # None /\ last'.team = active_team

\* C14: foul_only_shots by the active side adds 1 to its fouls and to its
\* foul_only_shots and passes the turn to the standby side with shots_left = 2
\* and shots_taken_current_visit = 0, whether shots_left was 1 or 2.
C14_FoulOnlyTurnover ==
  [][ActiveSidePerforms({"foul_only_shots"}) =>
       /\ team_stats'[active_team]["fouls"] = team_stats[active_team]["fouls"] + 1
       /\ team_stats'[active_team]["foul_only_shots"] =
            team_stats[active_team]["foul_only_shots"] + 1
       /\ active_team' = standby_team
       /\ active_team' # active_team
       /\ shots_left' = 2
       /\ shots_taken_current_visit' = 0]_vars

\* C14 witness: the foul was the first shot of a two-shot visit.
C14_Witness ==
  /\ saved.phase = "recorded" /\ saved.action = "foul_only_shots"
  /\ saved.team = saved.view.active_team
  /\ saved.view.shots_left = 2
  /\ active_team = saved.view.standby_team
  /\ shots_left = 2

\* C15: a clean miss by the active side takes one from shots_left; at 0 the
\* turn passes to the standby side with shots_left = 1 and
\* shots_taken_current_visit = 0, otherwise (shots_left was 2) the side stays
\* active with shots_left = 1 and one more shot taken in the visit.
C15_CleanMiss ==
  [][ActiveSidePerforms({"easy_shots", "difficult_shots", "safety_shots"}) =>
       /\ shots_left \in {1, 2}
       /\ shots_left = 1 =>
            /\ active_team' = standby_team /\ active_team' # active_team
            /\ shots_left' = 1
            /\ shots_taken_current_visit' = 0
       /\ shots_left = 2 =>
            /\ active_team' = active_team
            /\ shots_left' = 1
            /\ shots_taken_current_visit' = shots_taken_current_visit + 1]_vars

\* C15 witness: the first clean miss after a foul; the side is still active.
C15_Witness ==
  /\ saved.phase = "recorded"
  /\ saved.action \in {"easy_shots", "difficult_shots", "safety_shots"}
  /\ saved.team = saved.view.active_team
  /\ saved.view.shots_left = 2
  /\ active_team = saved.team
  /\ shots_left = 1 /\ shots_taken_current_visit = 1

PotKinds ==
  {<<"easy_potted", "easy_shots">>, <<"difficult_potted", "difficult_shots">>,
   <<"safety_potted", "safety_shots">>, <<"break_potted", "break_shots">>}

IdleAtStart ==
  /\ active_team = None /\ standby_team = None
  /\ start_time = None
  /\ shots_left = 1 /\ shots_taken_current_visit = 0
  /\ \A t \in Teams \cup {"total"} : \A k \in Fields : team_stats[t][k] = 0

\* C17: from the initial Idle state the first break attempt by side S is
\* accepted, sets break_team = S and gives S visits = 1 and break_shots = 1;
\* break_potted gives break_potted(S) = 1 and makes S active with
\* shots_left = 1; break_shots gives break_potted(S) = 0 and makes the
\* opponent of S active with shots_left = 1 and shots_taken_current_visit = 0.
C17_FirstBreak ==
  [][\A S \in Teams :
       (/\ IdleAtStart
        /\ last'.op = "record_action" /\ last'.team = S
        /\ last'.action \in {"break_potted", "break_shots"}) =>
         /\ last'.result = "ok"
         /\ break_team' = S
         /\ team_stats'[S]["visits"] = 1
         /\ team_stats'[S]["break_shots"] = 1
         /\ last'.action = "break_potted" =>
              /\ team_stats'[S]["break_potted"] = 1
              /\ active_team' = S
              /\ shots_left' = 1
         /\ last'.action = "break_shots" =>
              /\ team_stats'[S]["break_potted"] = 0
              /\ active_team' # S /\ active_team' \in Teams
              /\ shots_left' = 1
              /\ shots_taken_current_visit' = 0]_vars

\* C17 witness: a missed first break straight after construction; the
\* opponent has the table.
C17_Witness ==
  /\ saved.phase = "recorded" /\ saved.action = "break_shots"
  /\ saved.view.active_team = None /\ saved.view.start_time = None
  /\ saved.view.break_team = None
  /\ break_team = saved.team
  /\ active_team \in Teams \ {saved.team}
  /\ team_stats[saved.team]["break_shots"] = 1
  /\ team_stats["total"]["visits"] = 1

\* C18: after an accepted record_action followed immediately by undo,
\* break_team equals its value immediately before that record_action.
C18_UndoRestoresBreakTeam ==
  saved.phase = "undone" => break_team = saved.view.break_team

\* C19: after a confirmed reset every counter of both sides and of the total
\* is 0, active_team and standby_team are None, shots_left = 1 and
\* shots_taken_current_visit = 0.
C19_ResetToIdle ==
  (last.op = "reset" /\ last.result = "ok") =>
    /\ \A t \in {"team1", "team2", "total"} : \A k \in Fields : team_stats[t][k] = 0
    /\ active_team = None /\ standby_team = None
    /\ shots_left = 1
    /\ shots_taken_current_visit = 0

\* C19 witness: the reset came in the middle of a two-shot visit, with counts
\* on both sides (the state it replaced is the newest snapshot).
C19_Witness ==
  /\ last.op = "reset" /\ last.result = "ok"
  /\ stats_history # <<>>
  /\ Last(stats_history)["team1"]["visits"] > 0
  /\ Last(stats_history)["team2"]["visits"] > 0
  /\ Last(active_team_history) # None
  /\ Last(shots_left_history) = 2

\* The row of an export, spelled out cell by cell from the fields `at` holds.
RowAt(at) ==
  LET a == at.team_stats["team1"]
      b == at.team_stats["team2"]
  IN << IF at.start_time = None THEN "N/A" ELSE "yyyy-mm-dd HH:MM:SS",
        IF at.end_time = None THEN "N/A" ELSE "yyyy-mm-dd HH:MM:SS",
        a["visits"], a["easy_shots"], a["easy_potted"], a["difficult_shots"],
        a["difficult_potted"], a["safety_shots"], a["safety_potted"],
        a["break_shots"], a["break_potted"], a["additional_potted"],
        a["fouls"], a["foul_only_shots"],
        b["visits"], b["easy_shots"], b["easy_potted"], b["difficult_shots"],
        b["difficult_potted"], b["safety_shots"], b["safety_potted"],
        b["break_shots"], b["break_potted"], b["additional_potted"],
        b["fouls"], b["foul_only_shots"] >>

\* C20: the row handed to the upload worker is the row of the fields at the
\* export trigger (start_time, end_time, the 12 counters of team1 in the fixed
\* order, the 12 counters of team2 in the same order); whatever is recorded,
\* undone or reset before the worker writes, the row it writes is that row,
\* and no step of the worker changes a counter or a turn-state field.
C20_ExportCapturedAtTrigger ==
  [][/\ (last'.op = "export_stats" /\ gsheets) =>
          /\ Len(uploads') = Len(uploads) + 1
          /\ uploads'[Len(uploads')].data =
               RowAt([team_stats |-> team_stats, start_time |-> start_time,
                      end_time |-> end_time'])
     /\ \A i \in DOMAIN uploads' :
          uploads'[i].data = RowAt(triggered'[uploads'[i].id])
     /\ last'.op = "upload_to_gsheets" =>
          \E i \in DOMAIN uploads :
            /\ uploads' = Remove(uploads, i)
            /\ \E r \in DOMAIN sheet' :
                 /\ sheet'[r] = RowAt(triggered[uploads[i].id])
                 /\ \A q \in DOMAIN sheet : q # r => sheet'[q] = sheet[q]
     /\ last'.op \in {"upload_to_gsheets_find", "upload_to_gsheets"} =>
          UNCHANGED app]_vars

\* C20 witness: a row written after a reset that came between the trigger
\* and the write: the sheet shows the visit the live counters no longer have.
C20_Witness ==
  /\ last.op = "upload_to_gsheets"
  /\ sheet # <<>>
  /\ Last(sheet)[3] = 1 /\ Last(sheet)[1] # "N/A"
  /\ team_stats["team1"]["visits"] = 0 /\ start_time = None
  /\ active_team = None

Metrics ==
  {"shot_percent", "pot_percent", "pot_per_visit", "easy_shot_percent",
   "difficult_shot_percent"}

\* C21: for every TeamStats with non-negative counters no derived metric
\* raises a division fault; pot %, shot %, easy shot % and difficult shot %
\* are 0 when easy_shots + difficult_shots, the total of shots, easy_shots and
\* difficult_shots respectively are 0; pot/visit is the pots divided by
\* max(visits, 1); on an all-zero TeamStats every metric is 0.
C21_NoDivisionByZero ==
  derived.computed =>
    LET shots == stats_in["easy_shots"] + stats_in["difficult_shots"]
                   + stats_in["safety_shots"] + stats_in["break_shots"]
                   + stats_in["foul_only_shots"]
        pots == stats_in["easy_potted"] + stats_in["difficult_potted"]
                  + stats_in["break_potted"] + stats_in["safety_potted"]
                  + stats_in["additional_potted"]
        visits == IF stats_in["visits"] > 1 THEN stats_in["visits"] ELSE 1
    IN /\ \A m \in Metrics : ~derived[m].raised /\ derived[m].den > 0
       /\ stats_in["easy_shots"] + stats_in["difficult_shots"] = 0
            => derived.pot_percent.num = 0
       /\ shots = 0 => derived.shot_percent.num = 0
       /\ stats_in["easy_shots"] = 0 => derived.easy_shot_percent.num = 0
       /\ stats_in["difficult_shots"] = 0 => derived.difficult_shot_percent.num = 0
       /\ derived.pot_per_visit.num * visits = pots * derived.pot_per_visit.den
       /\ (\A k \in Fields : stats_in[k] = 0) => \A m \in Metrics : derived[m].num = 0

\* C21 witness: pots counted with no visit and no shot of any kind: every
\* percentage has a zero denominator and pot/visit falls back to one visit.
C21_Witness ==
  /\ derived.computed
  /\ stats_in["visits"] = 0
  /\ stats_in["easy_shots"] = 0 /\ stats_in["difficult_shots"] = 0
  /\ stats_in["safety_shots"] = 0 /\ stats_in["break_shots"] = 0
  /\ stats_in["foul_only_shots"] = 0
  /\ stats_in["easy_potted"] = 1 /\ stats_in["additional_potted"] = 2
  /\ derived.pot_per_visit.num > 0
  /\ derived.easy_shot_percent.num = 0

\* record_action(team, action) passes the three checks of the code.
WouldAccept(team, action) ==
  /\ ~WrongTeam(Self, team, action)
  /\ ~DuplicateBreak(Self, team, action)
  /\ VisitCheck(first_break(Self, team, action), team, action) = "ok"

\* C22: in every reachable state in which a side is active, at least one
\* non-amendment action kind performed by the active side is accepted.
C22_ActiveSideCanShoot ==
  active_team # None =>
    \E action \in Actions :
      ~IsAmendment(action) /\ WouldAccept(active_team, action)

\* C23: with no active side, active_team becomes a side only by an accepted
\* break_potted or break_shots or by an undo; a record_action of any other
\* kind, amendment or not, activates no side and changes no counter.
C23_IdleLeftByBreakOnly ==
  [][active_team = None =>
       /\ active_team' # None =>
            \/ last'.op = "undo"
            \/ /\ last'.op = "record_action" /\ last'.result = "ok"
               /\ last'.action \in {"break_potted", "break_shots"}
       /\ (last'.op = "record_action"
             /\ last'.action \notin {"break_potted", "break_shots"}) =>
            /\ active_team' = None
            /\ team_stats' = team_stats]_vars

\* C24: in every reachable state and for each side easy_potted <= easy_shots,
\* difficult_potted <= difficult_shots, safety_potted <= safety_shots,
\* break_potted <= break_shots and foul_only_shots <= fouls.
C24_PottedWithinShots ==
  \A team \in Teams :
    /\ team_stats[team]["easy_potted"] <= team_stats[team]["easy_shots"]
    /\ team_stats[team]["difficult_potted"] <= team_stats[team]["difficult_shots"]
    /\ team_stats[team]["safety_potted"] <= team_stats[team]["safety_shots"]
    /\ team_stats[team]["break_potted"] <= team_stats[team]["break_shots"]
    /\ team_stats[team]["foul_only_shots"] <= team_stats[team]["fouls"]

\* C24 witness: one side with a potted break and a foul-only shot, the other
\* with a missed easy shot: bounds met with equality and with room.
C24_Witness ==
  \E team \in Teams :
    /\ team_stats[team]["break_potted"] = 1 /\ team_stats[team]["break_shots"] = 1
    /\ team_stats[team]["foul_only_shots"] = 1 /\ team_stats[team]["fouls"] = 1
    /\ team_stats[OtherTeam(team)]["easy_potted"] = 0
    /\ team_stats[OtherTeam(team)]["easy_shots"] = 1

\* A stack after one more value went on it, the oldest leaving at capacity.
Pushed(stack, value) ==
  IF Len(stack) < undo_snapshot_size
  THEN Append(stack, value)
  ELSE Append(Tail(stack), value)

\* A stack as it was, less the entry that left at capacity.
Kept(stack) ==
  IF Len(stack) < undo_snapshot_size THEN stack ELSE Tail(stack)

\* C25: a confirmed reset pushes exactly one entry on each history stack,
\* the oldest leaving at capacity, and removes no other; the undo right after
\* it succeeds and restores the counters, active_team, standby_team,
\* shots_left and shots_taken_current_visit to their values before the reset,
\* and leaves the history as it was before the reset (less an evicted
\* entry), so that further undos go on into it.
C25_ResetIsUndoable ==
  [][/\ (last'.op = "reset" /\ last'.result = "ok") =>
          /\ stats_history' = Pushed(stats_history, team_stats)
          /\ active_team_history' = Pushed(active_team_history, active_team)
          /\ shots_left_history' = Pushed(shots_left_history, shots_left)
          /\ shots_taken_current_visit_history' =
               Pushed(shots_taken_current_visit_history, shots_taken_current_visit)
          /\ action_log_history' = Pushed(action_log_history, action_log)
     /\ saved'.phase = "reset_undone" =>
          /\ last'.op = "undo" /\ last'.result = "ok"
          /\ team_stats' = saved'.view.team_stats
          /\ active_team' = saved'.view.active_team
          /\ standby_team' = saved'.view.standby_team
          /\ shots_left' = saved'.view.shots_left
          /\ shots_taken_current_visit' = saved'.view.shots_taken_current_visit
          /\ stats_history' = Kept(saved'.stacks[1])
          /\ action_log_history' = Kept(saved'.stacks[2])
          /\ active_team_history' = Kept(saved'.stacks[3])
          /\ shots_left_history' = Kept(saved'.stacks[4])
          /\ shots_taken_current_visit_history' = Kept(saved'.stacks[5])]_vars

\* C25 witness: a reset in the middle of a two-shot visit, with the history
\* at capacity, was undone; one earlier entry is left to undo.
C25_Witness ==
  /\ saved.phase = "reset_undone"
  /\ Len(saved.stacks[1]) = undo_snapshot_size
  /\ undo_snapshot_size >= 2
  /\ Len(stats_history) = undo_snapshot_size - 1
  /\ team_stats["total"]["visits"] >= 1
  /\ active_team # None /\ shots_left = 2
  /\ Last(stats_history) # team_stats
====
